---- MODULE Spec2Model ----
(***************************************************************************)
(* State-machine model of the JurisAI2 white-label front-end:              *)
(*   - the branding store (hooks/useBranding.ts),                          *)
(*   - the JSON request path of the API client (utils/api.ts),             *)
(*   - the document-upload panel (components/DocumentUpload.tsx),          *)
(*   - the chat of the main page (pages/MainPage),                         *)
(*   - the case-search panel (components/CaseSearch.tsx),                  *)
(*   - the jurisprudence-search panel (JurisprudenceSearch),               *)
(*   - the application shell, its routes and the setup wizard.             *)
(* Each subsystem has its own specification; the variables of the other    *)
(* subsystems are held at one idle value.                                  *)
(***************************************************************************)
EXTENDS Integers, Sequences, FiniteSets, TLC

VARIABLES
    \* ---- branding store (one hook instance per mounted consumer) ----
    mounted,        \* store -> BOOLEAN: the hook instance exists
    branding,       \* store -> the useState value `branding`
    isLoading,      \* store -> the useState value `isLoading`
    rendered,       \* store -> [branding, isLoading] captured by the last render's closures
    loadPc,         \* store -> position of loadBranding: idle, start, fetch, json, done
    loadTrace,      \* store -> history of one load: what it read and which sources it tried
    persisted,      \* localStorage item 'branding'
    brandingDoc,    \* the static resource /config/branding.json of the deployment
    dom,            \* presentation layer: css properties, document.title, favicon link
    domDark,        \* documentElement.classList.contains('dark')
    crashed,        \* an effect threw during commit: React unmounts the tree
    updates,        \* number of update/reset calls so far (bounded)
    \* ---- one JSON request of ApiClient.request ----
    reqPhase,       \* idle, fetching (await fetch), reading (await response.json()), done
    reqTimeout,     \* this.timeout, from the application configuration
    reqClock,       \* time units since the request started; stops when it ends
    timerArmed,     \* the setTimeout that aborts the controller is pending
    reqOutcome,     \* pending, resolved, or the message of the error thrown
    \* ---- document upload panel ----
    documents,      \* the useState value `documents` of the main page
    documentsProp,  \* the `documents` the onDrop closure of the last render captured
    pipelines,      \* document id -> position and file of its simulateUpload call
    uploadProgress, \* the useState value `uploadProgress`: document id -> percent
    \* ---- chat of the main page ----
    messages,       \* the useState value `messages`
    currentMessage, \* the useState value `currentMessage`
    pendingReplies, \* number of reply timers set by handleSendMessage and not yet run
    \* ---- case-search panel ----
    caseNumber,     \* the useState value `caseNumber`
    selectedCourt,  \* the useState value `selectedCourt`
    isSearching,    \* the useState value `isSearching`
    caseInfo,       \* the useState value `caseInfo`
    caseError,      \* the useState value `error`
    searchRun,      \* the handleSearch call waiting on its simulated delay, if any
    \* ---- application shell (App) and API client singleton ----
    appDoc,         \* the static resource /config/app.json of the deployment
    appPc,          \* position of loadAppConfig: start, fetch, json, then how it ended
    appConfig,      \* the useState value `appConfig` of App
    appIsLoading,   \* the useState value `isLoading` of App
    isSetupComplete, \* the useState value `isSetupComplete` of App
    setupFlag,      \* localStorage item 'setupComplete'
    apiClient,      \* the module variable `apiClient` of utils/api.ts
    location,       \* the path of the URL the router resolves
    \* ---- setup wizard (SetupPage) ----
    currentStep,    \* the useState value `currentStep`
    formData,       \* the useState value `formData`: the draft
    \* ---- jurisprudence-search panel (JurisprudenceSearch) ----
    query,          \* the useState value `query`
    filters,        \* the useState value `filters`
    jurisSearching, \* the useState value `isSearching` of JurisprudenceSearch
    results,        \* the useState value `results`
    showFilters,    \* the useState value `showFilters`
    searchesInFlight, \* the handleSearch calls awaiting their timer
    lastOp          \* the operation the last step performed

brandVars == <<mounted, branding, isLoading, rendered, loadPc, loadTrace, persisted,
               brandingDoc, dom, domDark, crashed, updates>>

apiVars == <<reqPhase, reqTimeout, reqClock, timerArmed, reqOutcome>>

uploadVars == <<documents, documentsProp, pipelines, uploadProgress>>

chatVars == <<messages, currentMessage, pendingReplies>>

caseVars == <<caseNumber, selectedCourt, isSearching, caseInfo, caseError, searchRun>>

shellVars == <<appDoc, appPc, appConfig, appIsLoading, isSetupComplete, setupFlag,
               apiClient, location>>

wizardVars == <<currentStep, formData>>

jurisVars == <<query, filters, jurisSearching, results, showFilters, searchesInFlight>>

\* The variables of the other subsystems.
NotBrand  == <<apiVars, uploadVars, chatVars, caseVars, shellVars, wizardVars,
               jurisVars>>
NotApi    == <<brandVars, uploadVars, chatVars, caseVars, shellVars, wizardVars,
               jurisVars>>
NotUpload == <<brandVars, apiVars, chatVars, caseVars, shellVars, wizardVars,
               jurisVars>>
NotChat   == <<brandVars, apiVars, uploadVars, caseVars, shellVars, wizardVars,
               jurisVars>>
NotCase   == <<brandVars, apiVars, uploadVars, chatVars, shellVars, wizardVars,
               jurisVars>>
NotShell  == <<apiVars, uploadVars, chatVars, caseVars, jurisVars>>
NotJuris  == <<brandVars, apiVars, uploadVars, chatVars, caseVars, shellVars, wizardVars>>

vars == <<brandVars, apiVars, uploadVars, chatVars, caseVars, shellVars, wizardVars,
          jurisVars, lastOp>>

----------------------------------------------------------------------------
\* Bounds of the model.
MaxUpdates == 2
MaxTimeout == 3     \* configured timeouts range over 1..MaxTimeout time units
MaxClock   == 6     \* the clock of a request stops advancing here
MaxDocs    == 2     \* documents created in one session
MaxSize    == 2     \* appConfig.fileUpload.maxSize, in size units
MaxCompletions == 1    \* completions of the setup wizard in one session
MaxMessages == 4    \* messages in the chat, replies still to come included
MaxSearches == 2    \* jurisprudence searches awaiting their timer

----------------------------------------------------------------------------
\* Plain-object helpers.

Undefined == "undefined"

\* obj.k, which is undefined for a key the object does not have.
Field(obj, k) == IF k \in DOMAIN obj THEN obj[k] ELSE Undefined

\* { ...a, ...b }: own keys of b override those of a, one level deep.
Spread(a, b) == [k \in (DOMAIN a) \cup (DOMAIN b) |-> IF k \in DOMAIN b THEN b[k] ELSE a[k]]

----------------------------------------------------------------------------
\* types/index.ts

BrandingKeys == {"appName", "tagline", "logo", "favicon", "colors", "fonts", "contact"}
SchemeNames  == {"light", "dark"}
ColorKeys    == {"primary", "secondary", "accent", "background", "surface", "text",
                 "textSecondary"}
FontKeys     == {"primary", "secondary"}
ContactKeys  == {"email", "phone", "website"}

Stores == {"App", "Setup"}

\* hooks/useBranding.ts: the compiled-in default record.
defaultBranding ==
    [appName |-> "JurisAI",
     tagline |-> "Assistente Juridico Inteligente",
     logo    |-> "/logo.svg",
     favicon |-> "/favicon.ico",
     colors  |-> [light |-> [primary |-> "#1e40af", secondary |-> "#64748b",
                             accent |-> "#f59e0b", background |-> "#ffffff",
                             surface |-> "#f8fafc", text |-> "#1e293b",
                             textSecondary |-> "#64748b"],
                  dark  |-> [primary |-> "#3b82f6", secondary |-> "#94a3b8",
                             accent |-> "#fbbf24", background |-> "#0f172a",
                             surface |-> "#1e293b", text |-> "#f1f5f9",
                             textSecondary |-> "#94a3b8"]],
     fonts   |-> [primary |-> "Inter", secondary |-> "system-ui"],
     contact |-> [email |-> "contato@jurisai.com.br", phone |-> "+55 11 99999-9999",
                  website |-> "https://jurisai.com.br"]]

\* The config/branding.json example the README documents (start.sh).
ReadmeBrandingDoc ==
    [appName |-> "Seu Escritorio AI",
     tagline |-> "Seu slogan aqui",
     logo    |-> "/seu-logo.svg",
     colors  |-> [light |-> [primary |-> "#1e40af", secondary |-> "#64748b",
                             accent |-> "#f59e0b"]],
     contact |-> [email |-> "contato@seuescritorio.com.br", phone |-> "+55 11 99999-9999",
                  website |-> "https://seuescritorio.com.br"]]

\* A complete branding document of a deployment.
customColors ==
    [light |-> [primary |-> "#111111", secondary |-> "#222222", accent |-> "#333333",
                background |-> "#fafafa", surface |-> "#f0f0f0", text |-> "#101010",
                textSecondary |-> "#202020"],
     dark  |-> [primary |-> "#aaaaaa", secondary |-> "#bbbbbb", accent |-> "#cccccc",
                background |-> "#000000", surface |-> "#0a0a0a", text |-> "#eeeeee",
                textSecondary |-> "#dddddd"]]

FullBrandingDoc ==
    [appName |-> "Lex", tagline |-> "Advogados", logo |-> "/lex.svg",
     favicon |-> "/lex.ico", colors |-> customColors,
     fonts   |-> [primary |-> "Roboto", secondary |-> "serif"],
     contact |-> [email |-> "a@lex.br", phone |-> "+55 11 1", website |-> "https://lex.br"]]

\* Every BrandingConfig key and every ColorScheme key of both variants is present.
AllSchemesComplete(cfg) ==
    /\ "colors" \in DOMAIN cfg
    /\ DOMAIN cfg.colors = SchemeNames
    /\ \A t \in SchemeNames : DOMAIN cfg.colors[t] = ColorKeys

FullyPopulated(cfg) ==
    /\ DOMAIN cfg = BrandingKeys
    /\ AllSchemesComplete(cfg)
    /\ DOMAIN cfg.fonts = FontKeys
    /\ DOMAIN cfg.contact = ContactKeys

----------------------------------------------------------------------------
\* localStorage values and JSON.

Absent == [kind |-> "absent"]
Raw(text) == [kind |-> "raw", text |-> text]

\* JSON.stringify of a plain object of strings: a string that parses back to it.
JSONstringify(obj) == [kind |-> "json", val |-> obj]

\* JSON.parse throws on text that is not JSON.
JSONparseThrows(item) == item.kind # "json"
JSONparse(item) == item.val

\* A load that passes over what localStorage holds.
TruthyNever(item) == FALSE

\* `if (savedBranding)`: null (absent) and the empty string are falsy.
Truthy(item) == item.kind = "json" \/ (item.kind = "raw" /\ item.text # "")

----------------------------------------------------------------------------
\* Presentation layer.

\* The value a css property, the title or the favicon has before any apply.
Static == "static"
NoLink == "none"

DomStates(hasFaviconLink) ==
    [css     |-> [k \in ColorKeys |-> Static],
     title   |-> [appName |-> Static, tagline |-> Static],
     favicon |-> IF hasFaviconLink THEN Static ELSE NoLink]

ThemeName(dark) == IF dark THEN "dark" ELSE "light"

\* applyBrandingToDOM reads brandingConfig.colors.<theme>.primary first: a record
\* without `colors`, or without the scheme of the active theme, makes it throw a
\* TypeError before it has written anything.
applyThrows(cfg, dark) ==
    \/ "colors" \notin DOMAIN cfg
    \/ ThemeName(dark) \notin DOMAIN cfg.colors

\* applyBrandingToDOM, when it does not throw: the seven properties of the scheme
\* of the active theme, the title, and the favicon when the link element exists.
applyBrandingToDOM(cfg, dark, d) ==
    [css     |-> [k \in ColorKeys |-> Field(cfg.colors[ThemeName(dark)], k)],
     title   |-> [appName |-> Field(cfg, "appName"), tagline |-> Field(cfg, "tagline")],
     favicon |-> IF d.favicon = NoLink THEN NoLink ELSE Field(cfg, "favicon")]

----------------------------------------------------------------------------
\* Branding store: inputs.

\* Partial records handed to updateBranding.
PartialName    == [appName |-> "Acme"]
PartialTagline == [tagline |-> "Direito Digital"]
PartialColors  == [colors |-> customColors]
\* a `colors` object that carries one scheme with one key
PartialOneColor == [colors |-> [light |-> [primary |-> "#000000"]]]

Partials == {PartialName, PartialTagline, PartialColors, PartialOneColor}

\* What an earlier session's updateBranding left in localStorage.
SavedBranding == Spread(defaultBranding, PartialName)

PersistedAtStart == {Absent, Raw(""), Raw("{bad"), JSONstringify(SavedBranding)}

\* /config/branding.json: not deployed (404), not JSON, or a document.
NoDoc   == [kind |-> "missing"]
BadDoc  == [kind |-> "badjson"]
Doc(d)  == [kind |-> "doc", val |-> d]
BrandingDocs == {NoDoc, BadDoc, Doc(ReadmeBrandingDoc), Doc(FullBrandingDoc)}

NoTrace == [saved |-> Absent, fetched |-> FALSE, src |-> "none"]

----------------------------------------------------------------------------
\* Branding store: useBranding.

\* useState(defaultBranding), useState(true); the mount effect calls loadBranding.
BrandInit ==
    /\ mounted     = [s \in Stores |-> s = "App"]
    /\ branding    = [s \in Stores |-> defaultBranding]
    /\ isLoading   = [s \in Stores |-> TRUE]
    /\ rendered    = [s \in Stores |-> [branding |-> defaultBranding, isLoading |-> TRUE]]
    /\ loadPc      = [s \in Stores |-> IF s = "App" THEN "start" ELSE "idle"]
    /\ loadTrace   = [s \in Stores |-> NoTrace]
    /\ persisted   \in PersistedAtStart
    /\ brandingDoc \in BrandingDocs
    /\ \E link \in BOOLEAN : dom = DomStates(link)
    /\ domDark     \in BOOLEAN
    /\ crashed     = FALSE
    /\ updates     = 0

\* The store of App, mounted and waiting for its load, in a deployment without
\* branding document: the state the other specifications hold the store in.
BrandIdle ==
    /\ mounted     = [s \in Stores |-> s = "App"]
    /\ branding    = [s \in Stores |-> defaultBranding]
    /\ isLoading   = [s \in Stores |-> TRUE]
    /\ rendered    = [s \in Stores |-> [branding |-> defaultBranding, isLoading |-> TRUE]]
    /\ loadPc      = [s \in Stores |-> IF s = "App" THEN "start" ELSE "idle"]
    /\ loadTrace   = [s \in Stores |-> NoTrace]
    /\ persisted   = Absent
    /\ brandingDoc = NoDoc
    /\ dom         = DomStates(TRUE)
    /\ domDark     = FALSE
    /\ crashed     = FALSE
    /\ updates     = 0

Live(s) == mounted[s] /\ ~crashed

\* loadBranding up to its first await: localStorage.getItem, JSON.parse.
loadBranding(s) ==
    /\ Live(s) /\ loadPc[s] = "start"
    /\ IF Truthy(persisted)
         THEN /\ IF JSONparseThrows(persisted)
                   THEN \* catch: console.warn; the record is left as it is
                        /\ loadTrace' = [loadTrace EXCEPT ![s] =
                              [saved |-> persisted, fetched |-> FALSE, src |-> "compiled"]]
                        /\ UNCHANGED branding
                   ELSE /\ branding' = [branding EXCEPT ![s] = JSONparse(persisted)]
                        /\ loadTrace' = [loadTrace EXCEPT ![s] =
                              [saved |-> persisted, fetched |-> FALSE, src |-> "persisted"]]
              \* finally
              /\ isLoading' = [isLoading EXCEPT ![s] = FALSE]
              /\ loadPc' = [loadPc EXCEPT ![s] = "done"]
         ELSE /\ loadTrace' = [loadTrace EXCEPT ![s] =
                    [saved |-> persisted, fetched |-> TRUE, src |-> "none"]]
              /\ loadPc' = [loadPc EXCEPT ![s] = "fetch"]
              /\ UNCHANGED <<branding, isLoading>>
    /\ UNCHANGED NotBrand
    /\ lastOp' = [op |-> "loadBranding", s |-> s]
    /\ UNCHANGED <<mounted, rendered, persisted, brandingDoc, dom, domDark, crashed, updates>>

\* The load ends without a fetched record: catch or a false response.ok, then finally.
LoadKeepsRecord(s) ==
    /\ loadTrace' = [loadTrace EXCEPT ![s].src = "compiled"]
    /\ isLoading' = [isLoading EXCEPT ![s] = FALSE]
    /\ loadPc' = [loadPc EXCEPT ![s] = "done"]
    /\ UNCHANGED branding

\* `await fetch('/config/branding.json')` resolves.
fetchResolves(s) ==
    /\ Live(s) /\ loadPc[s] = "fetch"
    /\ IF brandingDoc.kind = "missing"
         THEN LoadKeepsRecord(s)       \* response.ok is false
         ELSE /\ loadPc' = [loadPc EXCEPT ![s] = "json"]
              /\ UNCHANGED <<branding, isLoading, loadTrace>>
    /\ UNCHANGED NotBrand
    /\ lastOp' = [op |-> "fetchResolves", s |-> s]
    /\ UNCHANGED <<mounted, rendered, persisted, brandingDoc, dom, domDark, crashed, updates>>

\* `await fetch(...)` rejects: a network error.
fetchRejects(s) ==
    /\ Live(s) /\ loadPc[s] = "fetch"
    /\ LoadKeepsRecord(s)
    /\ UNCHANGED NotBrand
    /\ lastOp' = [op |-> "fetchRejects", s |-> s]
    /\ UNCHANGED <<mounted, rendered, persisted, brandingDoc, dom, domDark, crashed, updates>>

\* `await response.json()` settles: setBranding(configBranding), or a SyntaxError.
jsonSettles(s) ==
    /\ Live(s) /\ loadPc[s] = "json"
    /\ IF brandingDoc.kind = "doc"
         THEN /\ branding' = [branding EXCEPT ![s] = brandingDoc.val]
              /\ loadTrace' = [loadTrace EXCEPT ![s].src = "fetched"]
              /\ isLoading' = [isLoading EXCEPT ![s] = FALSE]
              /\ loadPc' = [loadPc EXCEPT ![s] = "done"]
         ELSE LoadKeepsRecord(s)
    /\ UNCHANGED NotBrand
    /\ lastOp' = [op |-> "jsonSettles", s |-> s]
    /\ UNCHANGED <<mounted, rendered, persisted, brandingDoc, dom, domDark, crashed, updates>>

\* The merge of updateBranding: { ...branding, ...newBranding }.
mergeBranding(current, newBranding) == Spread(current, newBranding)

\* updateBranding(newBranding), called through the handle of the last render: it
\* merges over the `branding` that render captured. An exception of
\* applyBrandingToDOM leaves the state set and persisted and the DOM as it was.
updateBranding(s, newBranding) ==
    /\ Live(s) /\ loadPc[s] # "start" /\ updates < MaxUpdates
    /\ LET updatedBranding == mergeBranding(rendered[s].branding, newBranding) IN
         /\ branding' = [branding EXCEPT ![s] = updatedBranding]
         /\ persisted' = JSONstringify(updatedBranding)
         /\ dom' = IF applyThrows(updatedBranding, domDark) THEN dom
                   ELSE applyBrandingToDOM(updatedBranding, domDark, dom)
    /\ updates' = updates + 1
    /\ UNCHANGED NotBrand
    /\ lastOp' = [op |-> "updateBranding", s |-> s, partial |-> newBranding]
    /\ UNCHANGED <<mounted, isLoading, rendered, loadPc, loadTrace, brandingDoc, domDark,
                   crashed>>

\* The record resetBranding stores, and what it leaves in localStorage.
resetRecord == defaultBranding

\* (mutant of resetPersisted: the override is not removed)
resetPersistedKept(item) == item

\* localStorage.removeItem('branding')
resetPersisted(item) == Absent

resetBranding(s) ==
    /\ Live(s) /\ loadPc[s] # "start" /\ updates < MaxUpdates
    /\ branding' = [branding EXCEPT ![s] = resetRecord]
    /\ persisted' = resetPersisted(persisted)
    /\ dom' = IF applyThrows(resetRecord, domDark) THEN dom
              ELSE applyBrandingToDOM(resetRecord, domDark, dom)
    /\ updates' = updates + 1
    /\ UNCHANGED NotBrand
    /\ lastOp' = [op |-> "resetBranding", s |-> s]
    /\ UNCHANGED <<mounted, isLoading, rendered, loadPc, loadTrace, brandingDoc, domDark,
                   crashed>>

\* A render of the consumer of store s: its closures capture the current state, and
\* the effect on [branding, isLoading] applies the record once loading is over.
\* An exception in the effect is uncaught: React unmounts the tree.
Render(s) ==
    /\ Live(s) /\ loadPc[s] # "start"
    /\ rendered[s] # [branding |-> branding[s], isLoading |-> isLoading[s]]
    /\ rendered' = [rendered EXCEPT ![s] = [branding |-> branding[s],
                                            isLoading |-> isLoading[s]]]
    /\ IF isLoading[s]
         THEN UNCHANGED <<dom, crashed>>
         ELSE IF applyThrows(branding[s], domDark)
                THEN crashed' = TRUE /\ UNCHANGED dom
                ELSE dom' = applyBrandingToDOM(branding[s], domDark, dom)
                     /\ UNCHANGED crashed
    /\ UNCHANGED NotBrand
    /\ lastOp' = [op |-> "Render", s |-> s]
    /\ UNCHANGED <<mounted, branding, isLoading, loadPc, loadTrace, persisted, brandingDoc,
                   domDark, updates>>

\* toggleTheme of useTheme flips the 'dark' class of the document element.
toggleTheme ==
    /\ ~crashed
    /\ domDark' = ~domDark
    /\ UNCHANGED NotBrand
    /\ lastOp' = [op |-> "toggleTheme", s |-> "App"]
    /\ UNCHANGED <<mounted, branding, isLoading, rendered, loadPc, loadTrace, persisted,
                   brandingDoc, dom, crashed, updates>>

BrandNext ==
    \/ \E s \in Stores : loadBranding(s)
    \/ \E s \in Stores : fetchResolves(s)
    \/ \E s \in Stores : fetchRejects(s)
    \/ \E s \in Stores : jsonSettles(s)
    \/ \E s \in Stores, p \in Partials : updateBranding(s, p)
    \/ \E s \in Stores : resetBranding(s)
    \/ \E s \in Stores : Render(s)
    \/ toggleTheme

----------------------------------------------------------------------------
\* utils/api.ts: ApiClient.request.

ApiIdle ==
    /\ reqPhase = "idle" /\ reqTimeout = 1 /\ reqClock = 0
    /\ timerArmed = FALSE /\ reqOutcome = "pending"

ApiInit ==
    /\ reqPhase = "idle" /\ reqTimeout \in 1..MaxTimeout /\ reqClock = 0
    /\ timerArmed = FALSE /\ reqOutcome = "pending"

StatusCodes == {200, 404, 500}

\* (mutant of HttpError: a response that is not ok is reported as a timeout)
HttpErrorAsTimeout(status) == "Request timeout"

\* new Error(`HTTP error! status: ${response.status}`)
HttpError(status) == IF status = 404 THEN "HTTP error! status: 404"
                     ELSE "HTTP error! status: 500"

\* request(): new AbortController, setTimeout(abort, this.timeout), fetch(...).
request ==
    /\ reqPhase = "idle"
    /\ reqPhase' = "fetching" /\ timerArmed' = TRUE
    /\ lastOp' = [op |-> "request", s |-> "App"]
    /\ UNCHANGED <<reqTimeout, reqClock, reqOutcome, NotApi>>

\* Time passes while the request is pending. A due timer runs before time moves on.
tick ==
    /\ reqPhase \in {"fetching", "reading"}
    /\ reqClock < MaxClock
    /\ ~(timerArmed /\ reqClock >= reqTimeout)
    /\ reqClock' = reqClock + 1
    /\ lastOp' = [op |-> "tick", s |-> "App"]
    /\ UNCHANGED <<reqPhase, reqTimeout, timerArmed, reqOutcome, NotApi>>

\* The timer runs controller.abort(): the pending fetch rejects with an AbortError,
\* which the catch block turns into Error('Request timeout').
timerFires ==
    /\ timerArmed /\ reqClock >= reqTimeout
    /\ timerArmed' = FALSE
    /\ reqPhase' = "done" /\ reqOutcome' = "Request timeout"
    /\ lastOp' = [op |-> "timerFires", s |-> "App"]
    /\ UNCHANGED <<reqTimeout, reqClock, NotApi>>

\* Whether the abort timer is still pending once `await fetch` has resolved:
\* clearTimeout(timeoutId) runs before the body is read.
timerAfterHeaders(armed) == FALSE

\* `await fetch` resolves with the response headers.
fetchResponds(status) ==
    /\ reqPhase = "fetching"
    /\ timerArmed' = timerAfterHeaders(timerArmed)
    /\ IF status = 200
         THEN reqPhase' = "reading" /\ UNCHANGED reqOutcome
         ELSE reqPhase' = "done" /\ reqOutcome' = HttpError(status)
    /\ lastOp' = [op |-> "fetchResponds", s |-> "App", status |-> status]
    /\ UNCHANGED <<reqTimeout, reqClock, NotApi>>

\* `await fetch` rejects with a transport error, which the catch block rethrows.
fetchFails ==
    /\ reqPhase = "fetching"
    /\ timerArmed' = FALSE
    /\ reqPhase' = "done" /\ reqOutcome' = "TypeError: Failed to fetch"
    /\ lastOp' = [op |-> "fetchFails", s |-> "App"]
    /\ UNCHANGED <<reqTimeout, reqClock, NotApi>>

\* `await response.json()` resolves: the request returns the parsed body.
bodyParsed ==
    /\ reqPhase = "reading"
    /\ reqPhase' = "done" /\ reqOutcome' = "resolved"
    /\ lastOp' = [op |-> "bodyParsed", s |-> "App"]
    /\ UNCHANGED <<reqTimeout, reqClock, timerArmed, NotApi>>

\* `await response.json()` rejects (a body that is not JSON): rethrown as it is.
bodyFails ==
    /\ reqPhase = "reading"
    /\ timerArmed' = FALSE
    /\ reqPhase' = "done" /\ reqOutcome' = "SyntaxError"
    /\ lastOp' = [op |-> "bodyFails", s |-> "App"]
    /\ UNCHANGED <<reqTimeout, reqClock, NotApi>>

ApiNext ==
    \/ request
    \/ tick
    \/ timerFires
    \/ \E status \in StatusCodes : fetchResponds(status)
    \/ fetchFails
    \/ bodyParsed
    \/ bodyFails

----------------------------------------------------------------------------
\* Text. A string is a sequence of tokens; " " is white space and "." the dot.

RECURSIVE split(_)
\* name.split('.'): the segments between the dots, empty ones included.
split(str) ==
    IF str = <<>> THEN << <<>> >>
    ELSE LET rest == split(Tail(str)) IN
         IF Head(str) = "." THEN << <<>> >> \o rest
         ELSE << <<Head(str)>> \o rest[1] >> \o Tail(rest)

toLowerCase(str) ==
    [i \in DOMAIN str |-> CASE str[i] = "PDF" -> "pdf"
                            [] str[i] = "TXT" -> "txt"
                            [] OTHER -> str[i]]

RECURSIVE trimStart(_)
trimStart(str) ==
    IF str # <<>> /\ Head(str) = " " THEN trimStart(Tail(str)) ELSE str

RECURSIVE trimEnd(_)
trimEnd(str) ==
    IF str # <<>> /\ str[Len(str)] = " " THEN trimEnd(SubSeq(str, 1, Len(str) - 1)) ELSE str

\* (mutant of trim: the text is tested as typed)
trimNothing(str) == str

\* String.prototype.trim
trim(str) == trimEnd(trimStart(str))

----------------------------------------------------------------------------
\* utils/api.ts: file validation.

\* '.' + file.name.split('.').pop()?.toLowerCase()
fileExtension(name) ==
    LET parts == split(name) IN <<".">> \o toLowerCase(parts[Len(parts)])

validateFileType(file, allowedTypes) == fileExtension(file.name) \in allowedTypes

\* (mutant of validateFileSize: a file of exactly the maximum size is refused)
validateFileSizeStrict(file, maxSize) == file.size < maxSize

validateFileSize(file, maxSize) == file.size <= maxSize

----------------------------------------------------------------------------
\* components/DocumentUpload.tsx

\* appConfig.fileUpload.allowedTypes: the extensions the dropzone accepts.
AllowedTypes == {<<".", "pdf">>, <<".", "doc">>, <<".", "docx">>, <<".", "txt">>}

\* Files handed to onDrop.
FilePdf == [name |-> <<"a", ".", "pdf">>, type |-> "application/pdf", size |-> MaxSize]

Files ==
    {FilePdf,
     [name |-> <<"a", ".", "PDF">>, type |-> "application/pdf", size |-> MaxSize + 1],
     [name |-> <<"pdf">>, type |-> "application/pdf", size |-> 1],
     [name |-> <<"a", ".", "exe">>, type |-> "application/x-msdownload", size |-> 1],
     [name |-> <<"a", ".", "exe">>, type |-> "application/x-msdownload",
      size |-> MaxSize + 1]}

\* One drop hands over one file, or a file followed by a.pdf.
Drops == {<<f>> : f \in Files} \cup {<<f, FilePdf>> : f \in Files}

ProgressStep == 10
ProgressEnd  == 100

MockAnalysis ==
    [summary   |-> "Este documento foi analisado com sucesso. Contem informacoes relevantes sobre o caso.",
     keyPoints |-> <<"Contrato de prestacao de servicos", "Prazo de vigencia: 12 meses",
                     "Valor total: R$ 50.000,00", "Clausula de rescisao antecipada">>,
     parties   |-> <<"Empresa A Ltda.", "Empresa B S.A.">>,
     dates     |-> <<"01/01/2024", "31/12/2024">>,
     obligations |-> <<"Prestacao de servicos de consultoria",
                       "Pagamento mensal ate o dia 10", "Relatorios mensais de atividades">>,
     risks     |-> <<"Clausula de multa elevada", "Ausencia de clausula de forca maior">>]

UploadIdle ==
    /\ documents = <<>> /\ documentsProp = <<>>
    /\ pipelines = <<>> /\ uploadProgress = <<>>

\* The checks of onDrop, in its order: the type first, then the size.
Accepted(file) ==
    /\ validateFileType(file, AllowedTypes)
    /\ validateFileSize(file, MaxSize)

\* The alert onDrop raises for a file it rejects.
alertFor(file) ==
    IF ~validateFileType(file, AllowedTypes)
      THEN [kind |-> "Tipo de arquivo nao suportado", name |-> file.name]
      ELSE [kind |-> "Arquivo muito grande", name |-> file.name]

\* onDrop(acceptedFiles). Document ids are fresh: they are numbered in creation
\* order. simulateUpload runs up to its first await inside the call.
\* The closure that runs is the one the dropzone held when the drop event arrived;
\* the dropzone reads the files before it calls it, so the pipelines may have
\* updated the list since (documentsProp is then behind documents). Two drops are
\* separate user events: the list of the first is rendered before the second.
onDrop(files) ==
    LET created  == Len(pipelines)
        accepted == SelectSeq(files, Accepted)
        rejected == SelectSeq(files, LAMBDA f : ~Accepted(f))
        newDocuments == [i \in 1..Len(accepted) |->
                            [id |-> created + i, name |-> accepted[i].name,
                             type |-> accepted[i].type, size |-> accepted[i].size,
                             status |-> "uploading"]]
    IN  /\ created + Len(accepted) <= MaxDocs
        /\ Len(documentsProp) = created
        /\ pipelines' = pipelines \o [i \in 1..Len(accepted) |->
                                         [stage |-> "uploading", file |-> accepted[i]]]
        /\ uploadProgress' = [id \in (DOMAIN uploadProgress) \cup
                                     {created + i : i \in 1..Len(accepted)} |->
                                 IF id \in DOMAIN uploadProgress THEN uploadProgress[id]
                                 ELSE 0]
        /\ documents' = IF Len(newDocuments) > 0 THEN documentsProp \o newDocuments
                        ELSE documents
        /\ lastOp' = [op |-> "onDrop", s |-> "App", files |-> files, first |-> created + 1,
                      alerts |-> [i \in 1..Len(rejected) |-> alertFor(rejected[i])]]
        /\ UNCHANGED <<documentsProp, NotUpload>>

\* A render of the panel: the next onDrop closure captures the current documents.
renderUpload ==
    /\ documentsProp # documents
    /\ documentsProp' = documents
    /\ lastOp' = [op |-> "renderUpload", s |-> "App"]
    /\ UNCHANGED <<documents, pipelines, uploadProgress, NotUpload>>

\* Number of awaits the pipeline of a document has passed.
Position(id) ==
    CASE pipelines[id].stage = "uploading"  -> uploadProgress[id] \div ProgressStep
      [] pipelines[id].stage = "processing" -> (ProgressEnd \div ProgressStep) + 1
      [] OTHER                              -> (ProgressEnd \div ProgressStep) + 2

\* All pipelines wait on the same sequence of delays, and timers of equal delay run
\* in the order they were set: a pipeline wakes up for the n-th time only after
\* every pipeline started before it has.
TimerDue(id) == \A j \in 1..(id - 1) : Position(j) > Position(id)

\* prev.map(doc => doc.id === documentId ? { ...doc, ...change } : doc)
mapDocument(prev, documentId, change) ==
    [i \in DOMAIN prev |-> IF prev[i].id = documentId THEN Spread(prev[i], change)
                           ELSE prev[i]]

\* The progress loop of simulateUpload wakes up and sets the next percentage.
uploadTick(id) ==
    /\ id \in DOMAIN pipelines /\ pipelines[id].stage = "uploading"
    /\ uploadProgress[id] + ProgressStep <= ProgressEnd
    /\ TimerDue(id)
    /\ uploadProgress' = [uploadProgress EXCEPT ![id] = @ + ProgressStep]
    /\ lastOp' = [op |-> "uploadTick", s |-> "App"]
    /\ UNCHANGED <<documents, documentsProp, pipelines, NotUpload>>

\* The loop ends: the document of this pipeline becomes 'processing'.
startProcessing(id) ==
    /\ id \in DOMAIN pipelines /\ pipelines[id].stage = "uploading"
    /\ uploadProgress[id] + ProgressStep > ProgressEnd
    /\ TimerDue(id)
    /\ documents' = mapDocument(documents, id, [status |-> "processing"])
    /\ pipelines' = [pipelines EXCEPT ![id].stage = "processing"]
    /\ lastOp' = [op |-> "startProcessing", s |-> "App", id |-> id]
    /\ UNCHANGED <<documentsProp, uploadProgress, NotUpload>>

\* The processing delay is over: 'ready' with the mock analysis; progress cleared.
finishProcessing(id) ==
    /\ id \in DOMAIN pipelines /\ pipelines[id].stage = "processing"
    /\ TimerDue(id)
    /\ documents' = mapDocument(documents, id,
                                [status |-> "ready", analysis |-> MockAnalysis])
    /\ pipelines' = [pipelines EXCEPT ![id].stage = "done"]
    /\ uploadProgress' = [k \in (DOMAIN uploadProgress) \ {id} |-> uploadProgress[k]]
    /\ lastOp' = [op |-> "finishProcessing", s |-> "App", id |-> id]
    /\ UNCHANGED <<documentsProp, NotUpload>>

UploadNext ==
    \/ \E files \in Drops : onDrop(files)
    \/ renderUpload
    \/ \E id \in 1..MaxDocs : uploadTick(id)
    \/ \E id \in 1..MaxDocs : startProcessing(id)
    \/ \E id \in 1..MaxDocs : finishProcessing(id)

----------------------------------------------------------------------------
\* pages/MainPage: the chat.

\* Texts the user types.
Texts == {<<>>, <<" ">>, <<"oi">>, <<" ", "oi">>}

\* The greeting, worded with the application name of the branding prop.
greeting(appName) ==
    [id |-> "1", type |-> "assistant",
     content |-> <<"Ola! Sou o ", appName, ", seu assistente juridico inteligente. Como posso ajuda-lo hoje?">>]

\* The branding prop of the main page: the record App rendered with.
MainPageBranding == rendered["App"].branding

ChatIdle ==
    /\ messages = <<greeting(Field(defaultBranding, "appName"))>>
    /\ currentMessage = <<>>
    /\ pendingReplies = 0

\* onMessageChange: the input field sets currentMessage.
setCurrentMessage(text) ==
    /\ currentMessage # text
    /\ currentMessage' = text
    /\ lastOp' = [op |-> "setCurrentMessage", s |-> "App"]
    /\ UNCHANGED <<messages, pendingReplies, NotChat>>

\* handleSendMessage: nothing for a blank message; otherwise the user message is
\* appended, the field is cleared and the simulated reply is scheduled.
handleSendMessage ==
    /\ Len(messages) + pendingReplies + 2 <= MaxMessages \/ trim(currentMessage) = <<>>
    /\ IF trim(currentMessage) = <<>>
         THEN UNCHANGED <<messages, currentMessage, pendingReplies>>
         ELSE /\ messages' = Append(messages, [id |-> "Date.now()", type |-> "user",
                                               content |-> currentMessage])
              /\ currentMessage' = <<>>
              /\ pendingReplies' = pendingReplies + 1
    /\ lastOp' = [op |-> "handleSendMessage", s |-> "App"]
    /\ UNCHANGED NotChat

\* The timer of handleSendMessage runs: the assistant reply is appended.
replyArrives ==
    /\ pendingReplies > 0
    /\ messages' = Append(messages,
                          [id |-> "Date.now() + 1", type |-> "assistant",
                           content |-> <<"Entendi sua solicitacao. Como posso ajuda-lo com isso?">>])
    /\ pendingReplies' = pendingReplies - 1
    /\ lastOp' = [op |-> "replyArrives", s |-> "App"]
    /\ UNCHANGED <<currentMessage, NotChat>>

\* (mutant of clearedMessages: the greeting is appended to the list)
clearedMessagesAppended(prev, appName) == Append(prev, greeting(appName))

\* The list clearChat sets.
clearedMessages(prev, appName) == <<greeting(appName)>>

clearChat ==
    /\ messages' = clearedMessages(messages, Field(MainPageBranding, "appName"))
    /\ lastOp' = [op |-> "clearChat", s |-> "App", had |-> Len(messages)]
    /\ UNCHANGED <<currentMessage, pendingReplies, NotChat>>

ChatNext ==
    \/ \E text \in Texts : setCurrentMessage(text)
    \/ handleSendMessage
    \/ replyArrives
    \/ clearChat

----------------------------------------------------------------------------
\* components/CaseSearch.tsx

\* appConfig.courts
Courts == {[id |-> "tjsp", name |-> "Tribunal de Justica de Sao Paulo"],
           [id |-> "stf", name |-> "Supremo Tribunal Federal"]}

CaseNumbers == {<<>>, <<" ">>, <<"1234567-89">>, <<" ", "1234567-89">>}

NoCase == [kind |-> "null"]
NoRun  == [kind |-> "none"]

ValidationError == "Por favor, informe o numero do processo e selecione o tribunal."

CaseIdle ==
    /\ caseNumber = <<>> /\ selectedCourt = ""
    /\ isSearching = FALSE /\ caseInfo = NoCase
    /\ caseError = "" /\ searchRun = NoRun

setCaseNumber(text) ==
    /\ caseNumber # text
    /\ caseNumber' = text
    /\ lastOp' = [op |-> "setCaseNumber", s |-> "App"]
    /\ UNCHANGED <<selectedCourt, isSearching, caseInfo, caseError, searchRun, NotCase>>

\* The select offers the empty option and one option per court.
setSelectedCourt(id) ==
    /\ selectedCourt # id
    /\ selectedCourt' = id
    /\ lastOp' = [op |-> "setSelectedCourt", s |-> "App"]
    /\ UNCHANGED <<caseNumber, isSearching, caseInfo, caseError, searchRun, NotCase>>

\* !caseNumber.trim() || !selectedCourt
searchInputInvalid(number, court) == trim(number) = <<>> \/ court = ""

\* courts.find(c => c.id === selectedCourt)?.name || selectedCourt
courtName(id) ==
    IF \E c \in Courts : c.id = id THEN (CHOOSE c \in Courts : c.id = id).name ELSE id

\* handleSearch, up to its await. The button is disabled while isSearching.
handleSearch ==
    /\ ~isSearching
    /\ IF searchInputInvalid(caseNumber, selectedCourt)
         THEN /\ caseError' = ValidationError
              /\ UNCHANGED <<isSearching, caseInfo, searchRun>>
         ELSE /\ isSearching' = TRUE
              /\ caseError' = ""
              /\ caseInfo' = NoCase
              /\ searchRun' = [kind |-> "run", number |-> caseNumber,
                               court |-> courtName(selectedCourt)]
    /\ lastOp' = [op |-> "handleSearch", s |-> "App"]
    /\ UNCHANGED <<caseNumber, selectedCourt, NotCase>>

\* The simulated delay is over: setCaseInfo(mockCaseInfo), finally setIsSearching(false).
searchResolves ==
    /\ searchRun.kind = "run"
    /\ caseInfo' = [kind |-> "case", number |-> searchRun.number, court |-> searchRun.court,
                    status |-> "Em andamento", subject |-> "Acao de Cobranca"]
    /\ isSearching' = FALSE
    /\ searchRun' = NoRun
    /\ lastOp' = [op |-> "searchResolves", s |-> "App"]
    /\ UNCHANGED <<caseNumber, selectedCourt, caseError, NotCase>>

CaseNext ==
    \/ \E text \in CaseNumbers : setCaseNumber(text)
    \/ \E id \in {""} \cup {c.id : c \in Courts} : setSelectedCourt(id)
    \/ handleSearch
    \/ searchResolves

----------------------------------------------------------------------------
\* App (application shell) and the API client singleton of utils/api.ts.

\* /config/app.json: the example the README documents (start.sh) has feature
\* flags and courts and no `api` section; a complete document has one.
ReadmeAppConfig == [features |-> "all", courts |-> <<"tjsp">>]
FullAppConfig ==
    [api |-> [baseUrl |-> "https://api.example.com", timeout |-> 30000],
     features |-> "all", courts |-> <<"tjsp">>]

AppDocs == {NoDoc, BadDoc, Doc(ReadmeAppConfig), Doc(FullAppConfig)}

NoConfig == [kind |-> "null"]
Config(d) == [kind |-> "config", val |-> d]

NoClient == [kind |-> "null"]

\* localStorage.getItem('setupComplete'): null, or the text stored.
FlagAbsent == "null"
FlagTrue   == "true"

\* new ApiClient(config) reads config.api.baseUrl: a TypeError without `api`.
initializeApiThrows(config) == "api" \notin DOMAIN config

\* initializeApi(config): the client the module variable is set to.
initializeApi(config) ==
    [kind |-> "client", baseUrl |-> config.api.baseUrl, timeout |-> config.api.timeout]

NotInitialized == [kind |-> "error",
                   message |-> "API client not initialized. Call initializeApi first."]

\* getApiClient(): throws while the module variable is null.
getApiClientResult(client) == IF client = NoClient THEN NotInitialized ELSE client

\* The paths of the three routes.
Paths == {"/", "/app", "/setup"}

\* App before its mount effect has run.
ShellIdle ==
    /\ appDoc = NoDoc /\ appPc = "start"
    /\ appConfig = NoConfig /\ appIsLoading = TRUE /\ isSetupComplete = FALSE
    /\ setupFlag = FlagAbsent /\ apiClient = NoClient
    /\ location = "/"

ShellInit ==
    /\ appDoc \in AppDocs /\ appPc = "start"
    /\ appConfig = NoConfig /\ appIsLoading = TRUE /\ isSetupComplete = FALSE
    /\ setupFlag \in {FlagAbsent, FlagTrue} /\ apiClient = NoClient
    /\ location \in Paths

\* What App returns: the loading screen, or the router with its routes.
\* (mutant of showsRoutes: a null configuration does not hold the routes back)
showsRoutesWithoutConfig(loading, brandingLoading, config) ==
    ~(loading \/ brandingLoading)

showsRoutes(loading, brandingLoading, config) ==
    ~(loading \/ brandingLoading \/ config = NoConfig)

Routes == /\ ~crashed
          /\ showsRoutes(appIsLoading, rendered["App"].isLoading, appConfig)

\* An effect that runs again after loadAppConfig has ended without a configuration.
mountEffectDueAfterFailure(pc) ==
    pc \in {"start", "notok", "caught:network", "caught:body"}

\* useEffect(..., []): the effect runs once, after the first render.
mountEffectDue(pc) == pc = "start"

\* The mount effect of App: loadAppConfig() runs up to its `await fetch`, then
\* checkSetupStatus() reads the flag and ends App's own loading.
appMount ==
    /\ ~crashed /\ mountEffectDue(appPc)
    /\ appPc' = "fetch"
    /\ isSetupComplete' = (setupFlag = FlagTrue)
    /\ appIsLoading' = FALSE
    /\ lastOp' = [op |-> "appMount", s |-> "App"]
    /\ UNCHANGED location
    /\ UNCHANGED <<appDoc, appConfig, setupFlag, apiClient, wizardVars, brandVars, NotShell>>

\* `await fetch('/config/app.json')` resolves; a response that is not ok ends
\* loadAppConfig without a configuration.
appFetchResolves ==
    /\ ~crashed /\ appPc = "fetch"
    /\ appPc' = IF appDoc.kind = "missing" THEN "notok" ELSE "json"
    /\ lastOp' = [op |-> "appFetchResolves", s |-> "App"]
    /\ UNCHANGED location
    /\ UNCHANGED <<appDoc, appConfig, appIsLoading, isSetupComplete, setupFlag, apiClient,
                   wizardVars, brandVars, NotShell>>

\* `await fetch(...)` rejects: the catch block logs the error.
appFetchRejects ==
    /\ ~crashed /\ appPc = "fetch"
    /\ appPc' = "caught:network"
    /\ lastOp' = [op |-> "appFetchRejects", s |-> "App"]
    /\ UNCHANGED location
    /\ UNCHANGED <<appDoc, appConfig, appIsLoading, isSetupComplete, setupFlag, apiClient,
                   wizardVars, brandVars, NotShell>>

\* `await response.json()` settles: setAppConfig(config), initializeApi(config);
\* a SyntaxError, or the TypeError of initializeApi, ends in the catch block.
appJsonSettles ==
    /\ ~crashed /\ appPc = "json"
    /\ IF appDoc.kind = "doc"
         THEN /\ appConfig' = Config(appDoc.val)
              /\ IF initializeApiThrows(appDoc.val)
                   THEN appPc' = "caught:init" /\ UNCHANGED apiClient
                   ELSE appPc' = "loaded" /\ apiClient' = initializeApi(appDoc.val)
         ELSE appPc' = "caught:body" /\ UNCHANGED <<appConfig, apiClient>>
    /\ lastOp' = [op |-> "appJsonSettles", s |-> "App"]
    /\ UNCHANGED location
    /\ UNCHANGED <<appDoc, appIsLoading, isSetupComplete, setupFlag, wizardVars, brandVars,
                   NotShell>>

\* A caller asks for the client.
getApiClient ==
    /\ lastOp' = [op |-> "getApiClient", s |-> "App",
                  result |-> getApiClientResult(apiClient)]
    /\ UNCHANGED <<shellVars, wizardVars, brandVars, NotShell>>

----------------------------------------------------------------------------
\* pages/SetupPage: the setup wizard.

\* The steps: basic information, visual identity, contact, summary.
StepCount == 4
LastStep == StepCount - 1

\* The fields of the draft.
DraftKeys == {"appName", "tagline", "logo", "colors", "contact"}

\* useState({ appName: branding.appName, ... }): the draft of a branding prop.
draftOf(cfg) == [k \in DraftKeys |-> Field(cfg, k)]

NoObject == [k \in {} |-> Undefined]

\* { ...obj[k] }: the spread of an undefined property is the empty object.
Own(obj, k) == IF k \in DOMAIN obj THEN obj[k] ELSE NoObject

WizardIdle ==
    /\ currentStep = 0
    /\ formData = draftOf(defaultBranding)

\* A router that shows the main page at '/app' whatever the setup status is.
routeElementUnguarded(path, complete) ==
    IF path = "/setup" THEN "SetupPage"
    ELSE IF path = "/app" THEN "MainPage"
    ELSE IF complete THEN "/app" ELSE "/setup"

\* The element of the route that matches a path: a page, or the path a <Navigate>
\* element leads to.
routeElement(path, complete) ==
    IF path = "/setup" THEN "SetupPage"
    ELSE IF path = "/app" THEN (IF complete THEN "MainPage" ELSE "/setup")
    ELSE IF complete THEN "/app" ELSE "/setup"

\* A <Navigate replace> element is rendered and replaces the location.
navigate ==
    /\ Routes /\ routeElement(location, isSetupComplete) \in Paths
    /\ location' = routeElement(location, isSetupComplete)
    /\ lastOp' = [op |-> "navigate", s |-> "App", from |-> location]
    /\ UNCHANGED <<appDoc, appPc, appConfig, appIsLoading, isSetupComplete, setupFlag,
                   apiClient, wizardVars, brandVars, NotShell>>

\* The route '/app' shows the main page.
MainPageShown == Routes /\ routeElement(location, isSetupComplete) = "MainPage"

\* The route /setup renders SetupPage: its own useBranding() and its useState
\* initial values, the draft taken from the branding prop of App.
mountSetup ==
    /\ Routes /\ routeElement(location, isSetupComplete) = "SetupPage"
    /\ ~mounted["Setup"]
    /\ mounted' = [mounted EXCEPT !["Setup"] = TRUE]
    /\ loadPc' = [loadPc EXCEPT !["Setup"] = "start"]
    /\ currentStep' = 0
    /\ formData' = draftOf(rendered["App"].branding)
    /\ lastOp' = [op |-> "mountSetup", s |-> "Setup"]
    /\ UNCHANGED <<branding, isLoading, rendered, loadTrace, persisted, brandingDoc, dom,
                   domDark, crashed, updates, shellVars, NotShell>>

Wizard == mounted["Setup"] /\ ~crashed

\* handleInputChange(field, value), from the inputs of the step shown.
handleInputChange(field, value) ==
    /\ Wizard
    /\ \/ currentStep = 0 /\ field \in {"appName", "tagline"}
       \/ currentStep = 2 /\ field = "contact"
    /\ formData' = Spread(formData, [k \in {field} |-> value])
    /\ lastOp' = [op |-> "handleInputChange", s |-> "Setup"]
    /\ UNCHANGED <<currentStep, brandVars, shellVars, NotShell>>

\* handleColorChange(theme, colorKey, value), from the color inputs of step 1.
handleColorChange(theme, colorKey, value) ==
    /\ Wizard /\ currentStep = 1
    /\ theme = ThemeName(domDark)
    /\ LET scheme == Spread(Own(formData.colors, theme),
                            [k \in {colorKey} |-> value])
           colors == Spread(formData.colors, [k \in {theme} |-> scheme])
       IN formData' = Spread(formData, [colors |-> colors])
    /\ lastOp' = [op |-> "handleColorChange", s |-> "Setup"]
    /\ UNCHANGED <<currentStep, brandVars, shellVars, NotShell>>

\* (mutant of stepAfterNext: the contact step is skipped)
stepAfterNextSkipping(step) == IF step < LastStep THEN LastStep ELSE step

\* nextStep: if (currentStep < steps.length - 1) setCurrentStep(currentStep + 1)
stepAfterNext(step) == IF step < LastStep THEN step + 1 ELSE step

\* prevStep: if (currentStep > 0) setCurrentStep(currentStep - 1)
stepAfterPrev(step) == IF step > 0 THEN step - 1 ELSE step

nextStep ==
    /\ Wizard
    /\ currentStep' = stepAfterNext(currentStep)
    /\ lastOp' = [op |-> "nextStep", s |-> "Setup"]
    /\ UNCHANGED <<formData, brandVars, shellVars, NotShell>>

prevStep ==
    /\ Wizard
    /\ currentStep' = stepAfterPrev(currentStep)
    /\ lastOp' = [op |-> "prevStep", s |-> "Setup"]
    /\ UNCHANGED <<formData, brandVars, shellVars, NotShell>>

\* (mutant of completeAvailable: the completion button is shown in every step)
completeAvailableAlways(step) == TRUE

\* The completion button replaces the next button in the last step only.
completeAvailable(step) == step = LastStep

\* (mutant of handleCompleteWrites: onComplete() runs before updateBranding)
handleCompleteWritesFlagFirst(updatedBranding, threw) ==
    <<[key |-> "setupComplete", val |-> FlagTrue],
      [key |-> "branding", val |-> JSONstringify(updatedBranding)]>>

\* The localStorage writes of handleComplete, in the order it makes them:
\* updateBranding(formData) writes 'branding' and then applies the record; unless
\* that throws, onComplete() writes 'setupComplete'.
handleCompleteWrites(updatedBranding, threw) ==
    <<[key |-> "branding", val |-> JSONstringify(updatedBranding)]>>
    \o (IF threw THEN <<>> ELSE <<[key |-> "setupComplete", val |-> FlagTrue]>>)

\* The value of a localStorage item after a sequence of writes.
itemAfter(key, before, writes) ==
    LET at == {i \in DOMAIN writes : writes[i].key = key}
    IN IF at = {} THEN before
       ELSE writes[CHOOSE i \in at : \A j \in at : j <= i].val

\* handleComplete: updateBranding(formData) through the wizard's own store, then
\* onComplete(), the completeSetup of App.
handleComplete ==
    /\ Wizard /\ completeAvailable(currentStep) /\ updates < MaxCompletions
    /\ LET updatedBranding == mergeBranding(rendered["Setup"].branding, formData)
           threw  == applyThrows(updatedBranding, domDark)
           writes == handleCompleteWrites(updatedBranding, threw)
       IN /\ branding' = [branding EXCEPT !["Setup"] = updatedBranding]
          /\ persisted' = itemAfter("branding", persisted, writes)
          /\ setupFlag' = itemAfter("setupComplete", setupFlag, writes)
          /\ dom' = IF threw THEN dom
                    ELSE applyBrandingToDOM(updatedBranding, domDark, dom)
          /\ isSetupComplete' = (IF threw THEN isSetupComplete ELSE TRUE)
          /\ lastOp' = [op |-> "handleComplete", s |-> "Setup", writes |-> writes,
                        committed |-> updatedBranding, completed |-> ~threw]
    /\ updates' = updates + 1
    /\ UNCHANGED <<mounted, isLoading, rendered, loadPc, loadTrace, brandingDoc, domDark,
                   crashed, appDoc, appPc, appConfig, appIsLoading, apiClient, location,
                   wizardVars, NotShell>>

\* Values typed into the wizard.
InputValues == {<<"appName", "Acme">>}

\* The part of the store that both the shell and the wizard run: the loads and
\* the renders of the mounted consumers.
StoreNext ==
    \/ \E s \in Stores : loadBranding(s)
    \/ \E s \in Stores : fetchResolves(s)
    \/ \E s \in Stores : fetchRejects(s)
    \/ \E s \in Stores : jsonSettles(s)
    \/ \E s \in Stores : Render(s)

\* The page is loaded again at a path: every component and the module variables
\* are constructed anew; localStorage and the deployment's documents stay.  The
\* panels of the main page are unmounted, as they are in the states this action
\* is taken from.
reload(path) ==
    /\ mounted'     = [s \in Stores |-> s = "App"]
    /\ branding'    = [s \in Stores |-> defaultBranding]
    /\ isLoading'   = [s \in Stores |-> TRUE]
    /\ rendered'    = [s \in Stores |-> [branding |-> defaultBranding, isLoading |-> TRUE]]
    /\ loadPc'      = [s \in Stores |-> IF s = "App" THEN "start" ELSE "idle"]
    /\ loadTrace'   = [s \in Stores |-> NoTrace]
    /\ dom'         = DomStates(dom.favicon # NoLink)
    /\ crashed'     = FALSE
    /\ appPc' = "start" /\ appConfig' = NoConfig /\ appIsLoading' = TRUE
    /\ isSetupComplete' = FALSE /\ apiClient' = NoClient
    /\ location' = path
    /\ currentStep' = 0 /\ formData' = draftOf(defaultBranding)
    /\ lastOp' = [op |-> "reload", s |-> "App"]
    /\ UNCHANGED <<persisted, brandingDoc, domDark, updates, appDoc, setupFlag, NotShell>>

ShellNext ==
    \/ appMount
    \/ appFetchResolves
    \/ appFetchRejects
    \/ appJsonSettles
    \/ getApiClient
    \/ navigate
    \/ mountSetup
    \/ StoreNext

WizardNext ==
    \/ appMount
    \/ appFetchResolves
    \/ appFetchRejects
    \/ appJsonSettles
    \/ navigate
    \/ mountSetup
    \/ StoreNext
    \/ toggleTheme
    \/ \E in \in InputValues : handleInputChange(in[1], in[2])
    \/ handleColorChange(ThemeName(domDark), "primary", "#000000")
    \/ nextStep
    \/ prevStep
    \/ handleComplete

----------------------------------------------------------------------------
\* components/CaseSearch.tsx: JurisprudenceSearch, the jurisprudence-search panel.

\* Texts typed into the query field.
Queries == {<<>>, <<" ">>, <<"dano">>}

\* Values of the court filter: all courts, or one of them.
CourtFilters == {"", "stj"}

NoResults   == <<>>
mockResults == <<"1", "2", "3">>

\* The panel as it is constructed.
JurisIdle ==
    /\ query = <<>>
    /\ filters = [court |-> "", dateRange |-> "", relevance |-> "high"]
    /\ jurisSearching = FALSE /\ results = NoResults /\ showFilters = FALSE
    /\ searchesInFlight = 0

\* onChange of the query field.
setQuery(text) ==
    /\ query' = text
    /\ lastOp' = [op |-> "setQuery", s |-> "App"]
    /\ UNCHANGED <<filters, jurisSearching, results, showFilters, searchesInFlight, NotJuris>>

\* The filter button.
setShowFilters ==
    /\ showFilters' = ~showFilters
    /\ lastOp' = [op |-> "setShowFilters", s |-> "App"]
    /\ UNCHANGED <<query, filters, jurisSearching, results, searchesInFlight, NotJuris>>

\* onChange of the court filter, which is rendered while the filters are shown.
setFilters(court) ==
    /\ showFilters
    /\ filters' = [filters EXCEPT !.court = court]
    /\ lastOp' = [op |-> "setFilters", s |-> "App"]
    /\ UNCHANGED <<query, jurisSearching, results, showFilters, searchesInFlight, NotJuris>>

\* handleSearch up to its await: nothing for a blank query; otherwise
\* setIsSearching(true) and a timer of 2000 ms.
jurisHandleSearch(event) ==
    /\ searchesInFlight < MaxSearches
    /\ IF trim(query) = <<>>
         THEN UNCHANGED <<jurisSearching, searchesInFlight>>
         ELSE /\ jurisSearching' = TRUE
              /\ searchesInFlight' = searchesInFlight + 1
    /\ lastOp' = [op |-> event, s |-> "App", started |-> trim(query) # <<>>]
    /\ UNCHANGED <<query, filters, results, showFilters, NotJuris>>

\* The search button: disabled={isSearching || !query.trim()}.
searchButtonDisabled(searching, text) == searching \/ trim(text) = <<>>

\* A click on the search button.
clickSearch ==
    /\ ~searchButtonDisabled(jurisSearching, query)
    /\ jurisHandleSearch("clickSearch")

\* Keys pressed in the query field.
Keys == {"Enter", "a"}

\* handleKeyPress: the Enter key calls handleSearch, whatever isSearching is.
handleKeyPress(key) ==
    IF key = "Enter"
      THEN jurisHandleSearch("handleKeyPress")
      ELSE /\ lastOp' = [op |-> "handleKeyPress", s |-> "App", started |-> FALSE]
           /\ UNCHANGED <<jurisVars, NotJuris>>

\* The timer of a handleSearch call fires: setResults(mockResults), and the
\* finally block calls setIsSearching(false).
searchTimerFires ==
    /\ searchesInFlight > 0
    /\ results' = mockResults
    /\ jurisSearching' = FALSE
    /\ searchesInFlight' = searchesInFlight - 1
    /\ lastOp' = [op |-> "searchTimerFires", s |-> "App"]
    /\ UNCHANGED <<query, filters, showFilters, NotJuris>>

JurisNext ==
    \/ \E text \in Queries : setQuery(text)
    \/ setShowFilters
    \/ \E court \in CourtFilters : setFilters(court)
    \/ clickSearch
    \/ \E key \in Keys : handleKeyPress(key)
    \/ searchTimerFires

\* The shell and the wizard's navigation over successive page loads.
RouteNext ==
    \/ appMount
    \/ appFetchResolves
    \/ appFetchRejects
    \/ appJsonSettles
    \/ navigate
    \/ mountSetup
    \/ StoreNext
    \/ nextStep
    \/ prevStep
    \/ handleComplete
    \/ \E path \in Paths : reload(path)

\* The branding store over successive page loads.
SessionNext ==
    \/ BrandNext
    \/ reload(location)

----------------------------------------------------------------------------
\* Specifications.

NoOp == lastOp = [op |-> "init", s |-> "App"]

\* The branding store.
Init == BrandInit /\ ApiIdle /\ UploadIdle /\ ChatIdle /\ CaseIdle /\ ShellIdle
    /\ WizardIdle /\ JurisIdle /\ NoOp
Next == BrandNext
Spec == Init /\ [][Next]_vars

\* One JSON request.
ApiSpecInit == ApiInit /\ BrandIdle /\ UploadIdle /\ ChatIdle /\ CaseIdle /\ ShellIdle
    /\ WizardIdle /\ JurisIdle /\ NoOp
ApiSpec == ApiSpecInit /\ [][ApiNext]_vars

\* The document-upload panel.
UploadSpecInit == UploadIdle /\ BrandIdle /\ ApiIdle /\ ChatIdle /\ CaseIdle /\ ShellIdle
    /\ WizardIdle /\ JurisIdle /\ NoOp
UploadSpec == UploadSpecInit /\ [][UploadNext]_vars

\* The chat.
ChatSpecInit == ChatIdle /\ BrandIdle /\ ApiIdle /\ UploadIdle /\ CaseIdle /\ ShellIdle
    /\ WizardIdle /\ JurisIdle /\ NoOp
ChatSpec == ChatSpecInit /\ [][ChatNext]_vars

\* The case-search panel.
CaseSpecInit == CaseIdle /\ BrandIdle /\ ApiIdle /\ UploadIdle /\ ChatIdle /\ ShellIdle
    /\ WizardIdle /\ JurisIdle /\ NoOp
CaseSpec == CaseSpecInit /\ [][CaseNext]_vars

\* The application shell with the setup wizard.
ShellBrandInit ==
    /\ mounted     = [s \in Stores |-> s = "App"]
    /\ branding    = [s \in Stores |-> defaultBranding]
    /\ isLoading   = [s \in Stores |-> TRUE]
    /\ rendered    = [s \in Stores |-> [branding |-> defaultBranding, isLoading |-> TRUE]]
    /\ loadPc      = [s \in Stores |-> IF s = "App" THEN "start" ELSE "idle"]
    /\ loadTrace   = [s \in Stores |-> NoTrace]
    /\ persisted   \in {Absent, JSONstringify(SavedBranding)}
    /\ brandingDoc \in {NoDoc, Doc(ReadmeBrandingDoc)}
    /\ dom         = DomStates(TRUE)
    /\ domDark     \in BOOLEAN
    /\ crashed     = FALSE
    /\ updates     = 0

ShellSpecInit == ShellBrandInit /\ ShellInit /\ WizardIdle /\ ApiIdle /\ UploadIdle
    /\ ChatIdle /\ CaseIdle /\ JurisIdle /\ NoOp
ShellSpec == ShellSpecInit /\ [][ShellNext]_vars

\* The setup wizard of a first run, in a deployment with a complete app.json.
WizardSpecInit == ShellBrandInit /\ ShellInit /\ appDoc = Doc(FullAppConfig)
    /\ setupFlag = FlagAbsent /\ WizardIdle /\ ApiIdle /\ UploadIdle /\ ChatIdle
    /\ CaseIdle /\ JurisIdle /\ NoOp
WizardSpec == WizardSpecInit /\ [][WizardNext]_vars

\* The first page load of a deployment, and the page loads after it.
RouteSpecInit == ShellBrandInit /\ ShellInit /\ appDoc = Doc(FullAppConfig)
    /\ setupFlag = FlagAbsent /\ WizardIdle /\ ApiIdle /\ UploadIdle /\ ChatIdle
    /\ CaseIdle /\ JurisIdle /\ NoOp
RouteSpec == RouteSpecInit /\ [][RouteNext]_vars

SessionSpec == Init /\ [][SessionNext]_vars

\* The jurisprudence-search panel.
JurisSpecInit == JurisIdle /\ CaseIdle /\ BrandIdle /\ ApiIdle /\ UploadIdle /\ ChatIdle
    /\ ShellIdle /\ WizardIdle /\ NoOp
JurisSpec == JurisSpecInit /\ [][JurisNext]_vars

----------------------------------------------------------------------------
\* Claims about the branding store (specification Spec).

\* C1: for every partial update applied by updateBranding to a store whose record
\* is fully populated, the resulting record, in memory and persisted, has every
\* BrandingConfig key and all seven ColorScheme keys of both variants populated.
C1_UpdateKeepsAllKeys ==
    [][\A s \in Stores :
         (/\ lastOp'.op = "updateBranding" /\ lastOp'.s = s
          /\ FullyPopulated(branding[s]) /\ FullyPopulated(rendered[s].branding))
         => (/\ FullyPopulated(branding'[s])
             /\ persisted'.kind = "json"
             /\ FullyPopulated(persisted'.val))]_vars

\* C2: resetBranding leaves the record of the store equal to the compiled-in
\* default, removes the persisted override, and leaves the presentation layer
\* showing the default record for the active theme.
C2_ResetRestoresDefault ==
    lastOp.op = "resetBranding" =>
        /\ branding[lastOp.s] = defaultBranding
        /\ persisted = Absent
        /\ dom.css = (IF domDark THEN defaultBranding.colors.dark
                                 ELSE defaultBranding.colors.light)
        /\ dom.title = [appName |-> "JurisAI", tagline |-> "Assistente Juridico Inteligente"]
        /\ dom.favicon \in {NoLink, "/favicon.ico"}

\* A reset that follows an update whose record the handlers still hold, in dark mode,
\* with a persisted override to remove before it.
C2_Witness ==
    /\ lastOp.op = "resetBranding"
    /\ updates >= 2
    /\ rendered[lastOp.s].branding # defaultBranding
    /\ domDark
    /\ dom.favicon # NoLink

\* C9: a finished load has isLoading false and a record in the store; it took the
\* persisted override exactly when that is usable, tried the fetched default
\* whenever the override is absent or unparseable, and kept the compiled-in
\* default only after trying the fetch.
Usable(item) == item.kind = "json"

C9_LoadFallbackOrder ==
    \A s \in Stores : loadPc[s] = "done" =>
        /\ ~isLoading[s]
        /\ DOMAIN branding[s] # {}
        /\ (loadTrace[s].src = "persisted") <=> Usable(loadTrace[s].saved)
        /\ ~Usable(loadTrace[s].saved) => loadTrace[s].fetched
        /\ loadTrace[s].src = "compiled" => loadTrace[s].fetched

\* C10: in every reachable state both the light and the dark ColorScheme of the
\* record of every mounted store have all seven keys.
C10_SchemesAlwaysComplete ==
    \A s \in Stores : mounted[s] => AllSchemesComplete(branding[s])

\* Whether a partial record names color key k of variant v.
Names(partial, v, k) ==
    /\ "colors" \in DOMAIN partial
    /\ v \in DOMAIN partial.colors
    /\ k \in DOMAIN partial.colors[v]

\* C15: after updateBranding with a partial that carries `colors`, applied to a
\* current record with two complete schemes, every color key of both variants that
\* the partial does not name has the value it had.
C15_ColorsMergePerScheme ==
    [][\A s \in Stores :
         (/\ lastOp'.op = "updateBranding" /\ lastOp'.s = s
          /\ "colors" \in DOMAIN lastOp'.partial
          /\ branding[s] = rendered[s].branding
          /\ AllSchemesComplete(branding[s]))
         => \A v \in SchemeNames, k \in ColorKeys :
                \/ Names(lastOp'.partial, v, k)
                \/ /\ v \in DOMAIN branding'[s].colors
                   /\ k \in DOMAIN branding'[s].colors[v]
                   /\ branding'[s].colors[v][k] = branding[s].colors[v][k]]_vars

\* C16: right after updateBranding or resetBranding, the seven color properties,
\* the title and the favicon reference are those of the record the store now holds,
\* resolved for the theme that is active.
C16_MutationAppliedAtOnce ==
    lastOp.op \in {"updateBranding", "resetBranding"} =>
        /\ ~applyThrows(branding[lastOp.s], domDark)
        /\ dom = applyBrandingToDOM(branding[lastOp.s], domDark, dom)

----------------------------------------------------------------------------
\* Claims about ApiClient.request (specification ApiSpec).

\* C3: a request that has not fully resolved within the configured timeout has
\* ended with 'Request timeout': past the timeout it is neither still pending, in
\* any phase, nor ended in another way.
C3_LateRequestTimesOut ==
    (reqPhase # "idle" /\ reqClock > reqTimeout) => reqOutcome = "Request timeout"

\* C18: a request ended by the abort timer fails with 'Request timeout'; one ended
\* by a response that is not ok, which arrives before the timer runs, fails with
\* 'HTTP error! status: <code>'; one ended by a transport failure fails with the
\* error of the transport; only the abort timer produces 'Request timeout'.
C18_FailuresAreDistinguished ==
    /\ lastOp.op = "timerFires" => reqOutcome = "Request timeout"
    /\ (lastOp.op = "fetchResponds" /\ lastOp.status = 404) =>
          (reqOutcome = "HTTP error! status: 404" /\ reqClock <= reqTimeout)
    /\ (lastOp.op = "fetchResponds" /\ lastOp.status = 500) =>
          (reqOutcome = "HTTP error! status: 500" /\ reqClock <= reqTimeout)
    /\ lastOp.op = "fetchFails" => reqOutcome = "TypeError: Failed to fetch"
    /\ reqOutcome = "Request timeout" => lastOp.op = "timerFires"

\* A response with status 500 that arrives some time after the request started.
C18_Witness ==
    /\ lastOp.op = "fetchResponds" /\ lastOp.status = 500
    /\ reqClock >= 1
    /\ reqPhase = "done"

----------------------------------------------------------------------------
\* Claims about the document-upload panel (specification UploadSpec).

\* The extension of a file name: what follows its last dot; a name without a dot
\* has none.
HasAllowedExtension(name) ==
    /\ \E i \in DOMAIN name : name[i] = "."
    /\ fileExtension(name) \in AllowedTypes

\* C4: a file whose extension is not among the allowed types, a name without any
\* dot included, is never in the document list and no upload pipeline runs for it.
C4_OnlyAllowedExtensions ==
    /\ \A k \in DOMAIN documents : HasAllowedExtension(documents[k].name)
    /\ \A id \in DOMAIN pipelines : HasAllowedExtension(pipelines[id].file.name)

\* The documents a drop created for a file, and the pipelines it started for it.
CreatedFor(file, docs, first) ==
    {k \in DOMAIN docs : /\ docs[k].id >= first
                         /\ docs[k].name = file.name /\ docs[k].size = file.size
                         /\ docs[k].status = "uploading"}

StartedFor(file, pipes, first) ==
    {id \in DOMAIN pipes : id >= first /\ pipes[id].file = file}

Raised(kind, file, alerts) ==
    \E i \in DOMAIN alerts : alerts[i] = [kind |-> kind, name |-> file.name]

\* C5, as claimed: every file larger than the maximum is rejected with the
\* size-specific message, is not added and starts no pipeline; a file of an allowed
\* type of exactly the maximum size is accepted; the valid files of the same drop
\* are added.
C5_OversizeGetsSizeMessage ==
    [][lastOp'.op = "onDrop" =>
         \A i \in DOMAIN lastOp'.files :
            LET f == lastOp'.files[i] IN
              /\ f.size > MaxSize =>
                    /\ Raised("Arquivo muito grande", f, lastOp'.alerts)
                    /\ CreatedFor(f, documents', lastOp'.first) = {}
                    /\ StartedFor(f, pipelines', lastOp'.first) = {}
              /\ (f.size <= MaxSize /\ fileExtension(f.name) \in AllowedTypes) =>
                    /\ CreatedFor(f, documents', lastOp'.first) # {}
                    /\ StartedFor(f, pipelines', lastOp'.first) # {}]_vars

\* C5, amended: the message is the size-specific one when the file passes the type
\* check, which runs first, and the type message otherwise.
C5_OversizeRejected ==
    [][lastOp'.op = "onDrop" =>
         \A i \in DOMAIN lastOp'.files :
            LET f == lastOp'.files[i] IN
              /\ f.size > MaxSize =>
                    /\ IF fileExtension(f.name) \in AllowedTypes
                         THEN Raised("Arquivo muito grande", f, lastOp'.alerts)
                         ELSE Raised("Tipo de arquivo nao suportado", f, lastOp'.alerts)
                    /\ CreatedFor(f, documents', lastOp'.first) = {}
                    /\ StartedFor(f, pipelines', lastOp'.first) = {}
              /\ (f.size <= MaxSize /\ fileExtension(f.name) \in AllowedTypes) =>
                    /\ CreatedFor(f, documents', lastOp'.first) # {}
                    /\ StartedFor(f, pipelines', lastOp'.first) # {}]_vars

\* A drop of a too large file of an allowed type together with a file of exactly
\* the maximum size: one alert, and the second file is in the list.
C5_Witness ==
    /\ lastOp.op = "onDrop"
    /\ Len(lastOp.files) = 2
    /\ lastOp.files[1].size > MaxSize
    /\ fileExtension(lastOp.files[1].name) \in AllowedTypes
    /\ lastOp.files[2].size = MaxSize
    /\ Len(lastOp.alerts) = 1
    /\ \E k \in DOMAIN documents : documents[k].id >= lastOp.first
                                   /\ documents[k].size = MaxSize

\* C8: every accepted file has a document in the list, created 'uploading', and
\* once its pipeline is over the document is 'ready' and carries an analysis with a
\* non-empty summary and at least one key point.
C8_FinishedPipelineLeavesReady ==
    \A id \in DOMAIN pipelines :
        \E k \in DOMAIN documents :
            /\ documents[k].id = id
            /\ pipelines[id].stage = "done" =>
                  /\ documents[k].status = "ready"
                  /\ "analysis" \in DOMAIN documents[k]
                  /\ documents[k].analysis.summary # ""
                  /\ Len(documents[k].analysis.keyPoints) >= 1

\* The moves of a document's status: it stays, or goes from 'uploading' to
\* 'processing', from 'processing' to 'ready', or from a status before 'ready' to
\* 'error'.
Advances(from, to) ==
    \/ to = from
    \/ from = "uploading" /\ to = "processing"
    \/ from = "processing" /\ to = "ready"
    \/ from # "ready" /\ to = "error"

\* C20: in every step, the status of every document of the list moves as above,
\* and a document carries an analysis only when its status is 'ready'.
C20_StatusOnlyAdvances ==
    [][\A i \in DOMAIN documents, j \in DOMAIN documents' :
          documents[i].id = documents'[j].id =>
             /\ Advances(documents[i].status, documents'[j].status)
             /\ "analysis" \in DOMAIN documents'[j] => documents'[j].status = "ready"]_vars

\* C21 (safety part): a pipeline step changes no document but the one with its
\* id; a drop leaves every document already in the list where and as it was; and
\* every accepted document is in the list exactly once.
C21_DropsAndPipelinesDoNotInterfere ==
    [][/\ lastOp'.op \in {"startProcessing", "finishProcessing"} =>
            /\ DOMAIN documents' = DOMAIN documents
            /\ \A i \in DOMAIN documents :
                  documents[i].id # lastOp'.id => documents'[i] = documents[i]
       /\ lastOp'.op = "onDrop" =>
            \A i \in DOMAIN documents :
               i \in DOMAIN documents' /\ documents'[i] = documents[i]
       /\ \A id \in DOMAIN pipelines' :
            Cardinality({k \in DOMAIN documents' : documents'[k].id = id}) = 1]_vars

----------------------------------------------------------------------------
\* Claims about the chat (specification ChatSpec).

\* C6: clearChat leaves exactly one message, the assistant greeting.
C6_ClearLeavesGreeting ==
    lastOp.op = "clearChat" =>
        /\ Len(messages) = 1
        /\ messages[1].type = "assistant"
        /\ messages[1] = greeting(Field(MainPageBranding, "appName"))

\* A clear of a list that held at least three messages: the greeting and an
\* exchange.
C6_Witness ==
    /\ lastOp.op = "clearChat"
    /\ lastOp.had >= 3
    /\ Len(messages) = 1

----------------------------------------------------------------------------
\* Claims about the case-search panel (specification CaseSpec).

Blank(text) == \A i \in DOMAIN text : text[i] = " "

\* C7: handleSearch with an empty or whitespace-only case number, or without a
\* court, sets the validation error, starts no search and leaves caseInfo as it was.
C7_InvalidSearchChangesNothing ==
    [][(lastOp'.op = "handleSearch" /\ (Blank(caseNumber) \/ selectedCourt = "")) =>
          /\ caseError' = ValidationError
          /\ ~isSearching /\ ~isSearching'
          /\ searchRun' = NoRun
          /\ caseInfo' = caseInfo]_vars

\* The validation error after a whitespace-only number, with the case information
\* of an earlier search still shown.
C7_Witness ==
    /\ lastOp.op = "handleSearch"
    /\ caseNumber = <<" ">>
    /\ selectedCourt # ""
    /\ caseError = ValidationError
    /\ caseInfo.kind = "case"
    /\ ~isSearching

----------------------------------------------------------------------------
\* Claims about the application shell (specification ShellSpec).

\* How loadAppConfig ends when the fetch fails: a response that is not ok, a
\* network error, a body that is not JSON.
ConfigFetchFailed == appPc \in {"notok", "caught:network", "caught:body"}

\* C11: once the fetch of the application configuration has failed, appConfig is
\* null, App shows the loading screen and not the routes whatever else has
\* finished loading, no page of a route is mounted, and the API client is not
\* initialized.
C11_FailedConfigKeepsLoading ==
    ConfigFetchFailed =>
        /\ appConfig = NoConfig
        /\ ~showsRoutes(appIsLoading, rendered["App"].isLoading, appConfig)
        /\ ~mounted["Setup"]
        /\ apiClient = NoClient

\* The body of app.json was not JSON, and everything else has finished loading.
C11_Witness ==
    /\ appPc = "caught:body"
    /\ ~appIsLoading
    /\ loadPc["App"] = "done" /\ ~rendered["App"].isLoading
    /\ ~crashed

\* C12: getApiClient fails with the 'not initialized' error and returns no client
\* as long as initializeApi has not been called; once the application
\* configuration has been loaded, it returns a client bound to the base URL and
\* the timeout of that configuration.
C12_ClientBoundAfterLoad ==
    lastOp.op = "getApiClient" =>
        /\ appPc \notin {"loaded", "caught:init"} => lastOp.result = NotInitialized
        /\ appConfig.kind = "config" =>
              /\ lastOp.result.kind = "client"
              /\ "api" \in DOMAIN appConfig.val
              /\ lastOp.result.baseUrl = appConfig.val.api.baseUrl
              /\ lastOp.result.timeout = appConfig.val.api.timeout

----------------------------------------------------------------------------
\* Claims about the setup wizard (specification WizardSpec).

DraftActions == {"handleInputChange", "handleColorChange", "nextStep", "prevStep"}

\* C13: a field edit, a color edit, next and previous leave the record of every
\* store, the persisted 'branding' override and the persisted 'setupComplete' flag
\* as they were; the completion action runs in the summary step only.
C13_DraftCommitsOnlyOnComplete ==
    [][/\ lastOp'.op \in DraftActions =>
            /\ branding' = branding
            /\ persisted' = persisted
            /\ setupFlag' = setupFlag
       /\ lastOp'.op = "handleComplete" => currentStep = LastStep]_vars

\* Back from the summary step with an edited name and an edited color in the
\* draft, and nothing committed or persisted.
C13_Witness ==
    /\ lastOp.op = "prevStep" /\ currentStep = LastStep - 1
    /\ formData.appName = "Acme"
    /\ formData.colors.light.primary = "#000000"
    /\ Field(branding["Setup"], "appName") # "Acme"
    /\ persisted = Absent /\ setupFlag = FlagAbsent /\ updates = 0

\* C14: the current step stays within the four steps; next moves it one step
\* forward, except in the summary step where it leaves it; previous moves it one
\* step back, except in the first step where it leaves it; no other action moves it.
C14_StepsAreLinear ==
    [][/\ currentStep' \in 0..LastStep
       /\ lastOp'.op = "nextStep" =>
            currentStep' = (IF currentStep = LastStep THEN currentStep
                            ELSE currentStep + 1)
       /\ lastOp'.op = "prevStep" =>
            currentStep' = (IF currentStep = 0 THEN currentStep ELSE currentStep - 1)
       /\ lastOp'.op \notin {"nextStep", "prevStep"} => currentStep' = currentStep]_vars

\* Back in the first step after the wizard had been completed in the summary step.
C14_Witness ==
    /\ lastOp.op = "prevStep" /\ currentStep = 0
    /\ updates = 1
    /\ setupFlag = FlagTrue

\* C17: once the completion action has committed the draft, with the loads of both
\* consumers over, the record that App holds, and hands to the main page, is the
\* committed record.
C17_AppHoldsCommittedRecord ==
    (/\ lastOp.op = "handleComplete" /\ lastOp.completed
     /\ loadPc["App"] = "done" /\ loadPc["Setup"] = "done")
    => /\ branding["App"] = lastOp.committed
       /\ MainPageBranding = lastOp.committed

\* C19: the completion action writes the persisted override of the draft first and
\* the 'setupComplete' flag after it, the store of the wizard holding the committed
\* record; the flag is written only when the update returned; and in no state is
\* the flag 'true' without a completion having persisted its draft.
C19_DraftPersistedBeforeFlag ==
    /\ lastOp.op = "handleComplete" =>
          LET w == lastOp.writes IN
            /\ Len(w) >= 1
            /\ w[1].key = "branding"
            /\ w[1].val = JSONstringify(lastOp.committed)
            /\ \A i \in DOMAIN w : w[i].key = "setupComplete" => i > 1
            /\ branding["Setup"] = lastOp.committed
            /\ persisted = JSONstringify(lastOp.committed)
            /\ (\E i \in DOMAIN w : w[i].key = "setupComplete") <=> lastOp.completed
            /\ lastOp.completed => setupFlag = FlagTrue
    /\ setupFlag = FlagTrue => (updates >= 1 /\ persisted.kind = "json")

\* A completion with an edited name: the override holds the name and the flag is set.
C19_Witness ==
    /\ lastOp.op = "handleComplete" /\ lastOp.completed
    /\ formData.appName = "Acme"
    /\ persisted.kind = "json" /\ Field(persisted.val, "appName") = "Acme"
    /\ setupFlag = FlagTrue /\ isSetupComplete

----------------------------------------------------------------------------
\* Further claims about the chat (specification ChatSpec).

\* C22: sending a message that is not blank appends that message, as a user
\* message, at the end of the list and schedules one reply; the reply, when it
\* comes, appends one assistant message at the end; sending a blank message
\* changes nothing; and no other action but clearChat changes the list.
C22_ListIsAppendOnly ==
    [][/\ (lastOp'.op = "handleSendMessage" /\ ~Blank(currentMessage)) =>
            /\ Len(messages') = Len(messages) + 1
            /\ SubSeq(messages', 1, Len(messages)) = messages
            /\ messages'[Len(messages')].type = "user"
            /\ messages'[Len(messages')].content = currentMessage
            /\ pendingReplies' = pendingReplies + 1
       /\ (lastOp'.op = "handleSendMessage" /\ Blank(currentMessage)) =>
            UNCHANGED <<messages, currentMessage, pendingReplies>>
       /\ lastOp'.op = "replyArrives" =>
            /\ Len(messages') = Len(messages) + 1
            /\ SubSeq(messages', 1, Len(messages)) = messages
            /\ messages'[Len(messages')].type = "assistant"
            /\ pendingReplies' = pendingReplies - 1
       /\ lastOp'.op \notin {"handleSendMessage", "replyArrives", "clearChat"} =>
            messages' = messages]_vars

\* The reply to a message typed with a leading blank has arrived: greeting,
\* the message as typed, the reply.
C22_Witness ==
    /\ lastOp.op = "replyArrives"
    /\ Len(messages) = 3
    /\ messages[2].type = "user" /\ messages[2].content = <<" ", "oi">>
    /\ messages[3].type = "assistant"
    /\ pendingReplies = 0

\* C30: every assistant message after the greeting has its user message before it
\* in the list: up to any reply, the list holds at least as many user messages as
\* replies. In particular a reply scheduled before a clear is not appended to the
\* cleared list.
C30_RepliesFollowTheirMessage ==
    \A i \in 2..Len(messages) :
        messages[i].type = "assistant" =>
            Cardinality({j \in 1..(i - 1) : messages[j].type = "user"})
              >= Cardinality({j \in 2..i : messages[j].type = "assistant"})

----------------------------------------------------------------------------
\* Further claims about the shell.

\* The routes are shown and the location is one the flag decides about.
Routed == Routes /\ location # "/setup"

C24_ConfigLoadedOnce ==
    /\ [][appPc' = "fetch" => appPc \in {"start", "fetch"}]_vars
    /\ [][appPc # "start" => appPc' # "start"]_vars
    /\ [][appConfig # NoConfig => (appConfig' = appConfig /\ apiClient' = apiClient)]_vars

\* The wizard has committed a branding update with the configuration loaded.
C24_Witness ==
    /\ appConfig # NoConfig /\ apiClient # NoClient
    /\ lastOp.op = "handleComplete" /\ lastOp.completed

\* The request has failed and the wizard cannot be reached.
C24_FailedWitness == appPc = "caught:network" /\ lastOp.op = "Render"

----------------------------------------------------------------------------
\* Further claims about the branding store.

\* The load of store s has just finished by way of the document request.
LoadFinishedByRequest(s) ==
    /\ lastOp.s = s /\ lastOp.op \in {"fetchResolves", "fetchRejects", "jsonSettles"}
    /\ loadPc[s] = "done"

\* C25.  When a load that went to the branding document finishes with an
\* override in localStorage (written by an update issued while the load was
\* waiting), the record of the store is that override.
C25_UpdateDuringLoadSurvives ==
    \A s \in Stores :
        (LoadFinishedByRequest(s) /\ persisted.kind = "json") =>
            branding[s] = persisted.val

\* The object holds every property of the partial, with the partial's value.
Holds(obj, partial) ==
    \A k \in DOMAIN partial : k \in DOMAIN obj /\ obj[k] = partial[k]

\* C26.  Two successive updateBranding calls on one store, the second made through
\* the handle the first was made through and touching other top-level keys,
\* leave the record and the persisted override holding both partials.
C26_UpdatesCompose ==
    [][\A s \in Stores :
         (/\ lastOp.op = "updateBranding" /\ lastOp.s = s
          /\ lastOp'.op = "updateBranding" /\ lastOp'.s = s
          /\ DOMAIN lastOp.partial \cap DOMAIN lastOp'.partial = {})
         => (/\ Holds(branding'[s], lastOp.partial)
             /\ Holds(branding'[s], lastOp'.partial)
             /\ Holds(persisted'.val, lastOp.partial)
             /\ Holds(persisted'.val, lastOp'.partial))]_vars

\* C27.  updateBranding leaves its record in localStorage, resetBranding leaves
\* nothing there; and a load that finds a record in localStorage finishes at
\* once with that record, without requesting the document, while a load that
\* finds nothing goes on to request the document.
C27_PersistedRecordIsLoaded ==
    /\ [](\A s \in Stores :
            (lastOp.op = "updateBranding" /\ lastOp.s = s) =>
                persisted = JSONstringify(branding[s]))
    /\ [](lastOp.op = "resetBranding" => persisted = Absent)
    /\ [](\A s \in Stores :
            (lastOp.op = "loadBranding" /\ lastOp.s = s /\ persisted.kind = "json") =>
                (/\ loadPc[s] = "done" /\ ~isLoading[s]
                 /\ branding[s] = JSONparse(persisted)
                 /\ ~loadTrace[s].fetched))
    /\ [](\A s \in Stores :
            (lastOp.op = "loadBranding" /\ lastOp.s = s /\ persisted = Absent) =>
                (loadPc[s] = "fetch" /\ branding[s] = defaultBranding))
    /\ [][lastOp'.op \in {"reload", "loadBranding"} => persisted' = persisted]_vars

\* A page load after two updates has loaded what they left, which is neither the
\* default nor the deployed document.
C27_Witness ==
    /\ lastOp.op = "loadBranding" /\ updates = MaxUpdates
    /\ persisted.kind = "json" /\ branding["App"] = persisted.val
    /\ branding["App"] # defaultBranding
    /\ brandingDoc.kind = "doc" /\ branding["App"] # brandingDoc.val

\* The load of store s has finished and its consumer has rendered the state the
\* store is in.
Settled(s) ==
    /\ Live(s) /\ ~isLoading[s]
    /\ rendered[s] = [branding |-> branding[s], isLoading |-> FALSE]

\* C28.  Whenever the load of a store has finished and its record carries the
\* scheme of the active theme, the seven colour properties are those of that
\* scheme, right after a theme toggle too.
C28_ColoursFollowTheTheme ==
    \A s \in Stores :
        (Settled(s) /\ ~applyThrows(branding[s], domDark)) =>
            dom.css = applyBrandingToDOM(branding[s], domDark, dom).css

----------------------------------------------------------------------------
\* Claims about the jurisprudence-search panel (specification JurisSpec).

\* C29.  At most one search is in flight, isSearching is true exactly while one
\* is, and no click or Enter key starts a search while isSearching is true.
C29_OneSearchAtATime ==
    /\ [](searchesInFlight <= 1)
    /\ [](jurisSearching <=> searchesInFlight > 0)
    /\ [][jurisSearching => searchesInFlight' <= searchesInFlight]_vars


=============================================================================
